---------------------------- MODULE Spec2Model ----------------------------
(***************************************************************************)
(* A model of prompts/scripts/refactor_clojure.py: the command line driver *)
(* main, the per-file worker refactor_file, and the pure helpers           *)
(* build_prompt, extract_code_from_response and extract_changes_summary.   *)
(*                                                                         *)
(* Texts are sequences of tokens.  A token stands for a run of characters  *)
(* that the program's string operations treat as a unit:                   *)
(*   OPEN   the eleven characters ```clojure followed by a newline,        *)
(*   MARK   ```clojure followed by something that is not a newline,        *)
(*   FENCE  ``` not followed by clojure,                                   *)
(*   SP     one blank, NL one newline (both removed by str.strip),         *)
(*   "a"    a run of ordinary characters,                                  *)
(*   PH_PATH, PH_CONTENT   the two placeholders of the prompt template.    *)
(* Replies of the remote service never hold NL (MARK followed by NL would  *)
(* be OPEN); NL only arises as what split leaves of an OPEN and as the     *)
(* newlines the program writes itself.                                     *)
(***************************************************************************)
EXTENDS Integers, Sequences, FiniteSets, TLC

\* ------------------------------------------------------------- bounds
\* at most this many .clj files exist under the scanned directory
MaxFiles == 3
\* longest reply (in tokens) tried on refactor_file and on the extractors
MaxReplyLen == 5
\* longest template / path / content (in tokens) tried on build_prompt
MaxPromptLen == 2

\* ------------------------------------------------------------- tokens
OPEN == "[fence]clojure[nl]"
MARK == "[fence]clojure"
FENCE == "[fence]"
SP == " "
NL == "[nl]"
PH_PATH == "{{FILE_PATH}}"
PH_CONTENT == "{{FILE_CONTENT}}"

\* characters removed by str.strip()
Whitespace == {SP, NL}
\* tokens that begin with three backticks: the lazy group stops at the first
Backticked == {OPEN, MARK, FENCE}
\* tokens that begin with the marker of str.split: it cuts there
Marked == {OPEN, MARK}

ReplyAlphabet == {OPEN, MARK, FENCE, SP, "a"}
PromptAlphabet == {PH_PATH, PH_CONTENT, "a"}

SeqsUpTo(S, n) == UNION {[1..k -> S] : k \in 0..n}

\* Optional[str]
None == [isNone |-> TRUE, text |-> <<>>]
Some(t) == [isNone |-> FALSE, text |-> t]
\* faulty variant: only None counts as false
TruthyUnlessNone(r) == ~r.isNone

\* Python truthiness of an Optional[str]: None and "" are false
Truthy(r) == ~r.isNone /\ r.text # <<>>

\* ------------------------------------------------------------- str helpers
RECURSIVE LStrip(_)
LStrip(s) == IF s # <<>> /\ Head(s) \in Whitespace THEN LStrip(Tail(s)) ELSE s

RECURSIVE RStrip(_)
RStrip(s) ==
  IF s # <<>> /\ s[Len(s)] \in Whitespace THEN RStrip(SubSeq(s, 1, Len(s) - 1)) ELSE s

\* str.strip()
Strip(s) == RStrip(LStrip(s))

\* str.replace(old, new) for a one-token old: every occurrence, left to right,
\* the inserted text is not scanned again
RECURSIVE Replace(_, _, _)
Replace(s, old, new) ==
  IF s = <<>> THEN <<>>
  ELSE IF Head(s) = old THEN new \o Replace(Tail(s), old, new)
  ELSE <<Head(s)>> \o Replace(Tail(s), old, new)

\* what the split on the marker leaves of the delimiting token after the cut
Residue(tok) == IF tok = OPEN THEN <<NL>> ELSE <<>>

\* str.split on the marker: the list of parts, never empty
RECURSIVE SplitMarked(_, _)
SplitMarked(s, cur) ==
  IF s = <<>> THEN <<cur>>
  ELSE IF Head(s) \in Marked THEN <<cur>> \o SplitMarked(Tail(s), Residue(Head(s)))
  ELSE SplitMarked(Tail(s), Append(cur, Head(s)))

\* index of the first token at or after i that begins with ```, 0 if none
RECURSIVE NextBacktick(_, _)
NextBacktick(s, i) ==
  IF i > Len(s) THEN 0
  ELSE IF s[i] \in Backticked THEN i
  ELSE NextBacktick(s, i + 1)

\* re.findall over the pattern of extract_code_from_response: the groups of the
\* non-overlapping matches, scanning from position i
RECURSIVE FindAll(_, _)
FindAll(s, i) ==
  IF i > Len(s) THEN <<>>
  ELSE IF s[i] = OPEN /\ NextBacktick(s, i + 1) # 0
       THEN LET j == NextBacktick(s, i + 1)
            IN  <<SubSeq(s, i + 1, j - 1)>> \o FindAll(s, j + 1)
  ELSE FindAll(s, i + 1)

\* ------------------------------------------------------------- pure functions
\* build_prompt
BuildPrompt(template, file_path, file_content) ==
  Replace(Replace(template, PH_PATH, file_path), PH_CONTENT, file_content)

\* faulty variant: the first match instead of the last
ExtractFirstBlock(response_text) ==
  LET matches == FindAll(response_text, 1)
  IN  IF matches # <<>> THEN Some(Strip(matches[1])) ELSE None

\* extract_code_from_response
ExtractCodeFromResponse(response_text) ==
  LET matches == FindAll(response_text, 1)
  IN  IF matches # <<>> THEN Some(Strip(matches[Len(matches)])) ELSE None

\* extract_changes_summary
ExtractChangesSummary(response_text) ==
  LET parts == SplitMarked(response_text, <<>>)
  IN  IF parts # <<>> THEN Strip(parts[1]) ELSE <<>>

\* ------------------------------------------------------------- paths
\* A pathlib.Path: anchor "/" when absolute, the directory names, the stem of the
\* final name (a token sequence) and its suffix.
MkPath(anchor, dirs, stem, suffix) ==
  [anchor |-> anchor, dirs |-> dirs, stem |-> stem, suffix |-> suffix]

\* Path.cwd()
Cwd == <<"cwd">>
\* args.output, the default Path("refactored")
OutputDir == <<"refactored">>

\* where the scanned directory lives: given relative to the working directory,
\* absolute inside it, or absolute outside it
Bases == {"rel", "cwd", "ext"}
BaseAnchor(base) == IF base = "rel" THEN "" ELSE "/"
BaseDirs(base) ==
  IF base = "rel" THEN <<"top">>
  ELSE IF base = "cwd" THEN <<"cwd", "top">>
  ELSE <<"ext", "top">>

\* the entries that may exist under the scanned directory top: sub is "" for an
\* entry directly inside it, else the name of the subdirectory holding it
CljEntries ==
  { [sub |-> d, stem |-> <<n>>, suffix |-> ".clj"] : d \in {"a", "b"}, n \in {"x"} }
    \cup { [sub |-> "", stem |-> <<"x">>, suffix |-> ".clj"],
           [sub |-> "a", stem |-> <<"y">>, suffix |-> ".clj"] }
OtherEntry == [sub |-> "", stem |-> <<"n">>, suffix |-> ".txt"]

EntryPath(base, e) ==
  MkPath(BaseAnchor(base),
         BaseDirs(base) \o (IF e.sub = "" THEN <<>> ELSE <<e.sub>>),
         e.stem, e.suffix)

\* Path.is_absolute()
IsAbsolute(p) == p.anchor = "/"

IsPrefix(a, b) == Len(a) <= Len(b) /\ SubSeq(b, 1, Len(a)) = a

\* Path.relative_to(Path.cwd()) raises ValueError unless cwd is a prefix
UnderCwd(p) == IsAbsolute(p) /\ IsPrefix(Cwd, p.dirs)
RelativeToCwd(p) ==
  MkPath("", SubSeq(p.dirs, Len(Cwd) + 1, Len(p.dirs)), p.stem, p.suffix)

\* refactor_file, lines 181-186
RelativePath(file_path) ==
  IF IsAbsolute(file_path)
  THEN IF UnderCwd(file_path) THEN RelativeToCwd(file_path)
       ELSE MkPath("", <<>>, file_path.stem, file_path.suffix)
  ELSE file_path

\* output_dir / relative_path
OutputPath(file_path) ==
  LET rel == RelativePath(file_path)
  IN  MkPath("", OutputDir \o rel.dirs, rel.stem, rel.suffix)

\* output_path.with_suffix(".changes.md")
SummaryPath(file_path) ==
  LET op == OutputPath(file_path)
  IN  MkPath(op.anchor, op.dirs, op.stem, ".changes.md")

\* output_dir / f"{file_path.stem}_debug.txt"
DebugPath(file_path) ==
  MkPath("", OutputDir, file_path.stem \o <<"_debug">>, ".txt")

\* the directory names joined by "/"
RECURSIVE JoinDirs(_)
JoinDirs(dirs) ==
  IF dirs = <<>> THEN <<>> ELSE <<Head(dirs), "/">> \o JoinDirs(Tail(dirs))

\* str(file_path)
PathText(p) ==
  (IF p.anchor = "/" THEN <<"/">> ELSE <<>>) \o JoinDirs(p.dirs) \o p.stem \o <<p.suffix>>

\* the path given on the command line: "missing" (nothing there), "top" (the
\* scanned directory), "sub" (its subdirectory a), "file" (top/a/x.clj itself),
\* "other" (top/n.txt, a file of another suffix)
PathKinds == {"missing", "top", "sub", "file", "other"}
ArgEntry(path_kind) ==
  IF path_kind = "file" THEN [sub |-> "a", stem |-> <<"x">>, suffix |-> ".clj"]
  ELSE OtherEntry

\* args.path.exists()
PathExists(path_kind, entries) ==
  IF path_kind = "missing" THEN FALSE
  ELSE IF path_kind = "file" THEN ArgEntry(path_kind) \in entries
  ELSE IF path_kind = "sub" THEN \E e \in entries : e.sub = "a"
  ELSE TRUE

\* path.is_file()
PathIsFile(path_kind) == path_kind \in {"file", "other"}

\* find_clojure_files: the set of paths found (the order is the enumeration's)
FindClojureFiles(path_kind, base, recursive, entries) ==
  IF PathIsFile(path_kind)
  THEN IF ArgEntry(path_kind).suffix = ".clj"
       THEN {EntryPath(base, ArgEntry(path_kind))}
       ELSE {}
  ELSE LET below == IF path_kind = "sub" THEN {e \in entries : e.sub = "a"} ELSE entries
           direct == IF path_kind = "sub" THEN below ELSE {e \in entries : e.sub = ""}
           globbed == IF recursive THEN below ELSE direct
       IN  {EntryPath(base, e) : e \in {x \in globbed : x.suffix = ".clj"}}

\* every order an enumeration may yield a set in
Orderings(S) ==
  {q \in [1..Cardinality(S) -> S] : \A j, k \in 1..Cardinality(S) : j # k => q[j] # q[k]}

\* ------------------------------------------------------------- inputs
\* what load_prompt_template may read
TemplateTexts == { <<PH_PATH, "a", PH_CONTENT>> }
\* what a source file may hold
InputContents == { <<>>, <<"a">> }
\* replies tried in whole runs of main: narration and a block, a bare block,
\* no block, a block of blanks
MainReplies ==
  { <<"a", OPEN, "a", FENCE>>, <<OPEN, "a", FENCE>>, <<"a">>, <<OPEN, SP, FENCE>> }
\* replies tried on one call of refactor_file and on the extractors
AllReplies == SeqsUpTo(ReplyAlphabet, MaxReplyLen)
PromptTexts == SeqsUpTo(PromptAlphabet, MaxPromptLen)

\* ------------------------------------------------------------- state
VARIABLES
  pc,              \* where main (or refactor_file inside it) stands
  args,            \* the parsed command line
  tree,            \* the entries under the scanned directory
  files,           \* main: files
  i,               \* main: the loop index
  template,        \* main: template
  content,         \* refactor_file: content
  prompt,          \* refactor_file: prompt
  response,        \* refactor_file: response
  refactored_code, \* refactor_file: refactored_code
  summary,         \* refactor_file: summary
  success,         \* main: success, the value refactor_file returned
  raised,          \* which step of refactor_file raised, "none" if none
  success_count,   \* main: success_count
  error_count,     \* main: error_count
  made_dirs,       \* directories created by mkdir
  client_built,    \* whether get_bedrock_client has returned
  calls,           \* remote calls issued so far
  inflight,        \* remote calls issued and not yet returned
  pauses,          \* time.sleep(REQUEST_DELAY) calls so far
  outfiles,        \* files written: path -> text, source files, number of writes
  printed,         \* the paths printed by the dry run
  tally,           \* the printed tally, <<>> before it is printed
  exit_code,       \* the process exit code, -1 while running
  discovered,      \* whether find_clojure_files has run
  pure             \* inputs and results of the helpers when run on their own

vars ==
  << pc, args, tree, files, i, template, content, prompt, response,
     refactored_code, summary, success, raised, success_count, error_count,
     made_dirs, client_built, calls, inflight, pauses, outfiles, printed, tally,
     exit_code, discovered, pure >>

locals == << content, prompt, response, refactored_code, summary >>
effects == << made_dirs, client_built, calls, inflight, pauses, outfiles, printed >>
counters == << success_count, error_count >>

NoFiles == [p \in {} |-> 0]
NoPure == [kind |-> "none"]

ArgSpace ==
  [path_kind : PathKinds, base : Bases, recursive : BOOLEAN, dry_run : BOOLEAN,
   template_exists : BOOLEAN]

Trees ==
  { T \cup {OtherEntry} : T \in {S \in SUBSET CljEntries : Cardinality(S) <= MaxFiles} }

\* everything but args, tree, pc and pure as the interpreter leaves it at startup
Fresh ==
  /\ files = <<>> /\ i = 0 /\ template = <<>>
  /\ content = <<>> /\ prompt = <<>> /\ response = <<>>
  /\ refactored_code = None /\ summary = <<>>
  /\ success = FALSE /\ raised = "none"
  /\ success_count = 0 /\ error_count = 0
  /\ made_dirs = {} /\ client_built = FALSE
  /\ calls = 0 /\ inflight = 0 /\ pauses = 0
  /\ outfiles = NoFiles /\ printed = <<>> /\ tally = <<>>
  /\ exit_code = -1 /\ discovered = FALSE

Init ==
  /\ pc = "validate"
  /\ args \in ArgSpace
  /\ tree \in Trees
  /\ pure = NoPure
  /\ Fresh

\* ------------------------------------------------------------- file writes
\* open(path, "w") and the writes that follow: the text replaces what was there
WriteFile(fs, path, text, src) ==
  LET old == IF path \in DOMAIN fs THEN fs[path]
             ELSE [text |-> <<>>, srcs |-> {}, n |-> 0]
  IN  (path :> [text |-> text, srcs |-> old.srcs \cup {src}, n |-> old.n + 1]) @@ fs

\* faulty variant: the trailing newline is not written
BodyTextNoNewline(code) == code

\* f.write(refactored_code); f.write("\n")
BodyText(code) == code \o <<NL>>

\* f.write(f"# Changes for {file_path}\n\n"); f.write(summary)
SummaryText(file_path, text) ==
  <<"# Changes for ">> \o PathText(file_path) \o <<NL, NL>> \o text

\* Path.mkdir(parents=True, exist_ok=True)
MkdirParents(dirs) == { SubSeq(dirs, 1, k) : k \in 1..Len(dirs) }

\* sys.exit(code), or an uncaught exception (code 1)
Exit(code) == pc' = "done" /\ exit_code' = code

\* ------------------------------------------------------------- main
\* faulty variant: the template path is not checked
ValidateNoTemplateCheck ==
  /\ pc = "validate"
  /\ IF ~PathExists(args.path_kind, tree)
     THEN Exit(1)
     ELSE pc' = "discover" /\ UNCHANGED exit_code
  /\ UNCHANGED << args, tree, pure, files, i, template, success, raised, tally,
                  discovered, locals, effects, counters >>

\* lines 285-292
Validate ==
  /\ pc = "validate"
  /\ IF ~PathExists(args.path_kind, tree)
     THEN Exit(1)
     ELSE IF ~args.template_exists
          THEN Exit(1)
          ELSE pc' = "discover" /\ UNCHANGED exit_code
  /\ UNCHANGED << args, tree, pure, files, i, template, success, raised, tally,
                  discovered, locals, effects, counters >>

\* faulty variant: --dry-run is ignored
DiscoverIgnoringDryRun ==
  /\ pc = "discover"
  /\ discovered' = TRUE
  /\ files' \in Orderings(FindClojureFiles(args.path_kind, args.base, args.recursive, tree))
  /\ IF files' = <<>>
     THEN Exit(0)
     ELSE pc' = "load" /\ UNCHANGED exit_code
  /\ UNCHANGED << args, tree, pure, i, template, success, raised, tally,
                  locals, effects, counters >>

\* lines 294-303
Discover ==
  /\ pc = "discover"
  /\ discovered' = TRUE
  /\ files' \in Orderings(FindClojureFiles(args.path_kind, args.base, args.recursive, tree))
  /\ IF files' = <<>>
     THEN Exit(0)
     ELSE /\ pc' = IF args.dry_run THEN "dry_run" ELSE "load"
          /\ UNCHANGED exit_code
  /\ UNCHANGED << args, tree, pure, i, template, success, raised, tally,
                  locals, effects, counters >>

\* lines 303-307
DryRun ==
  /\ pc = "dry_run"
  /\ printed' = files
  /\ Exit(0)
  /\ UNCHANGED << args, tree, pure, files, i, template, success, raised, tally,
                  discovered, locals, counters, made_dirs, client_built, calls,
                  inflight, pauses, outfiles >>

\* line 310: the template is read, or open raises and nothing catches it
LoadTemplate ==
  /\ pc = "load"
  /\ \/ template' \in TemplateTexts /\ pc' = "mkdir" /\ UNCHANGED exit_code
     \/ Exit(1) /\ UNCHANGED template
  /\ UNCHANGED << args, tree, pure, files, i, success, raised, tally,
                  discovered, locals, effects, counters >>

\* line 315: the output directory is made, or mkdir raises and nothing catches it
MakeOutputDir ==
  /\ pc = "mkdir"
  /\ \/ made_dirs' = made_dirs \cup MkdirParents(OutputDir) /\ pc' = "client"
        /\ UNCHANGED exit_code
     \/ Exit(1) /\ UNCHANGED made_dirs
  /\ UNCHANGED << args, tree, pure, files, i, template, success, raised, tally,
                  discovered, locals, counters, client_built, calls, inflight,
                  pauses, outfiles, printed >>

\* lines 320-326: the client is built and the loop entered, or the session
\* cannot be made and nothing catches it
GetBedrockClient ==
  /\ pc = "client"
  /\ \/ client_built' = TRUE /\ i' = 1 /\ pc' = "read" /\ UNCHANGED exit_code
     \/ Exit(1) /\ UNCHANGED << client_built, i >>
  /\ UNCHANGED << args, tree, pure, files, template, success, raised, tally,
                  discovered, locals, counters, made_dirs, calls, inflight,
                  pauses, outfiles, printed >>

\* ------------------------------------------------------------- refactor_file
\* faulty variant: the exception of open/read escapes refactor_file
ReadFileUncaught ==
  /\ pc = "read"
  /\ \/ content' \in InputContents /\ pc' = "build"
        /\ UNCHANGED << raised, success, exit_code >>
     \/ raised' = "read" /\ Exit(1) /\ UNCHANGED << content, success >>
  /\ UNCHANGED << args, tree, pure, files, i, template, tally, discovered,
                  prompt, response, refactored_code, summary, effects, counters >>

\* lines 147-150: the file is read, or open/read raises and line 208 catches it
ReadFile ==
  /\ pc = "read"
  /\ \/ content' \in InputContents /\ pc' = "build" /\ UNCHANGED << raised, success >>
     \/ raised' = "read" /\ success' = FALSE /\ pc' = "account" /\ UNCHANGED content
  /\ UNCHANGED << args, tree, pure, files, i, template, tally, exit_code, discovered,
                  prompt, response, refactored_code, summary, effects, counters >>

\* lines 156-165: the prompt is built and the request sent
BuildAndCall ==
  /\ pc = "build"
  /\ prompt' = BuildPrompt(template, PathText(files[i]), content)
  /\ calls' = calls + 1
  /\ inflight' = inflight + 1
  /\ pc' = "calling"
  /\ UNCHANGED << args, tree, pure, files, i, template, success, raised, tally,
                  exit_code, discovered, content, response, refactored_code,
                  summary, counters, made_dirs, client_built, pauses, outfiles,
                  printed >>

\* lines 127-135: invoke_model returns a reply, or it (or the decoding of the
\* reply) raises and line 208 catches it
CallReturn(replies) ==
  /\ pc = "calling"
  /\ inflight' = inflight - 1
  /\ \/ response' \in replies /\ pc' = "parse" /\ UNCHANGED << raised, success >>
     \/ raised' = "call" /\ success' = FALSE /\ pc' = "account" /\ UNCHANGED response
  /\ UNCHANGED << args, tree, pure, files, i, template, tally, exit_code, discovered,
                  content, prompt, refactored_code, summary, counters, made_dirs,
                  client_built, calls, pauses, outfiles, printed >>

\* lines 168-206: the reply is parsed and the results written; each write may
\* raise, which line 208 catches
ParseWrite ==
  /\ pc = "parse"
  /\ refactored_code' = ExtractCodeFromResponse(response)
  /\ IF ~Truthy(refactored_code')
     THEN /\ success' = FALSE
          /\ UNCHANGED << summary, made_dirs >>
          /\ \/ /\ outfiles' = WriteFile(outfiles, DebugPath(files[i]), response, files[i])
                /\ UNCHANGED raised
             \/ raised' = "io" /\ UNCHANGED outfiles
     ELSE \/ \* output_path.parent.mkdir raises
             /\ raised' = "io" /\ success' = FALSE
             /\ UNCHANGED << summary, made_dirs, outfiles >>
          \/ \* the write of the refactored code raises
             /\ made_dirs' = made_dirs \cup MkdirParents(OutputPath(files[i]).dirs)
             /\ raised' = "io" /\ success' = FALSE
             /\ UNCHANGED << summary, outfiles >>
          \/ /\ made_dirs' = made_dirs \cup MkdirParents(OutputPath(files[i]).dirs)
             /\ summary' = ExtractChangesSummary(response)
             /\ LET body == WriteFile(outfiles, OutputPath(files[i]),
                                      BodyText(refactored_code'.text), files[i])
                IN  IF summary' # <<>>
                    THEN \/ /\ outfiles' = WriteFile(body, SummaryPath(files[i]),
                                               SummaryText(files[i], summary'), files[i])
                            /\ success' = TRUE /\ UNCHANGED raised
                         \/ \* the write of the summary raises
                            /\ outfiles' = body
                            /\ raised' = "io" /\ success' = FALSE
                    ELSE outfiles' = body /\ success' = TRUE /\ UNCHANGED raised
  /\ pc' = "account"
  /\ UNCHANGED << args, tree, pure, files, i, template, tally, exit_code, discovered,
                  content, prompt, response, counters, client_built, calls, inflight,
                  pauses, printed >>

\* ------------------------------------------------------------- main: the loop
\* faulty variant: a pause after every file, the last included
AccountPauseAlways ==
  /\ pc = "account"
  /\ IF success
     THEN success_count' = success_count + 1 /\ UNCHANGED error_count
     ELSE error_count' = error_count + 1 /\ UNCHANGED success_count
  /\ content' = <<>> /\ prompt' = <<>> /\ response' = <<>>
  /\ refactored_code' = None /\ summary' = <<>>
  /\ raised' = "none"
  /\ IF i < Len(files)
     THEN pc' = "sleep" /\ UNCHANGED pauses
     ELSE pc' = "summary" /\ pauses' = pauses + 1
  /\ UNCHANGED << args, tree, pure, files, i, template, success, tally, exit_code,
                  discovered, made_dirs, client_built, calls, inflight, outfiles,
                  printed >>

\* lines 338-344: the result is counted; refactor_file's frame is gone
Account ==
  /\ pc = "account"
  /\ IF success
     THEN success_count' = success_count + 1 /\ UNCHANGED error_count
     ELSE error_count' = error_count + 1 /\ UNCHANGED success_count
  /\ content' = <<>> /\ prompt' = <<>> /\ response' = <<>>
  /\ refactored_code' = None /\ summary' = <<>>
  /\ raised' = "none"
  /\ pc' = IF i < Len(files) THEN "sleep" ELSE "summary"
  /\ UNCHANGED << args, tree, pure, files, i, template, success, tally, exit_code,
                  discovered, effects >>

\* line 347 and the next iteration of line 326
Sleep ==
  /\ pc = "sleep"
  /\ pauses' = pauses + 1
  /\ i' = i + 1
  /\ pc' = "read"
  /\ UNCHANGED << args, tree, pure, files, template, success, raised, tally,
                  exit_code, discovered, locals, counters, made_dirs, client_built,
                  calls, inflight, outfiles, printed >>

\* lines 350-360: the tally is printed and main returns
Summary ==
  /\ pc = "summary"
  /\ tally' = << success_count, error_count >>
  /\ Exit(0)
  /\ UNCHANGED << args, tree, pure, files, i, template, success, raised,
                  discovered, locals, effects, counters >>

Next ==
  \/ Validate
  \/ Discover
  \/ DryRun
  \/ LoadTemplate
  \/ MakeOutputDir
  \/ GetBedrockClient
  \/ ReadFile
  \/ BuildAndCall
  \/ CallReturn(MainReplies)
  \/ ParseWrite
  \/ Account
  \/ Sleep
  \/ Summary

Spec == Init /\ [][Next]_vars

\* ------------------------------------------------------------- one file, any reply
\* main run on the single file top/a/x.clj, the reply drawn from every text up
\* to MaxReplyLen tokens
InitFile ==
  /\ Init
  /\ args.path_kind = "file"
  /\ ~args.dry_run
  /\ ~args.recursive
  /\ tree = {ArgEntry("file"), OtherEntry}

NextFile ==
  \/ Validate
  \/ Discover
  \/ LoadTemplate
  \/ MakeOutputDir
  \/ GetBedrockClient
  \/ ReadFile
  \/ BuildAndCall
  \/ CallReturn(AllReplies)
  \/ ParseWrite
  \/ Account
  \/ Summary

SpecFile == InitFile /\ [][NextFile]_vars

\* ------------------------------------------------------------- the helpers alone
\* build_prompt, extract_code_from_response and extract_changes_summary applied
\* to every input within the bounds
ParseInput(r) ==
  [kind |-> "parse", template |-> <<>>, path |-> <<>>, content |-> <<>>,
   reply |-> r, prompt |-> <<>>, code |-> None, summary |-> <<>>, done |-> {}]

PromptInput(t, p, c) ==
  [kind |-> "prompt", template |-> t, path |-> p, content |-> c,
   reply |-> <<>>, prompt |-> <<>>, code |-> None, summary |-> <<>>, done |-> {}]

InitPure ==
  /\ pc = "pure"
  /\ args = [path_kind |-> "missing", base |-> "rel", recursive |-> FALSE,
             dry_run |-> FALSE, template_exists |-> FALSE]
  /\ tree = {OtherEntry}
  /\ \/ \E r \in AllReplies : pure = ParseInput(r)
     \/ \E t \in PromptTexts, p \in PromptTexts, c \in PromptTexts :
          pure = PromptInput(t, p, c)
  /\ Fresh

PureBuildPrompt ==
  /\ pc = "pure" /\ pure.kind = "prompt" /\ "prompt" \notin pure.done
  /\ pure' = [pure EXCEPT !.prompt = BuildPrompt(pure.template, pure.path, pure.content),
                          !.done = @ \cup {"prompt"}]
  /\ UNCHANGED << pc, args, tree, files, i, template, success, raised, tally,
                  exit_code, discovered, locals, effects, counters >>

PureExtractCode ==
  /\ pc = "pure" /\ pure.kind = "parse" /\ "code" \notin pure.done
  /\ pure' = [pure EXCEPT !.code = ExtractCodeFromResponse(pure.reply),
                          !.done = @ \cup {"code"}]
  /\ UNCHANGED << pc, args, tree, files, i, template, success, raised, tally,
                  exit_code, discovered, locals, effects, counters >>

PureExtractSummary ==
  /\ pc = "pure" /\ pure.kind = "parse" /\ "summary" \notin pure.done
  /\ pure' = [pure EXCEPT !.summary = ExtractChangesSummary(pure.reply),
                          !.done = @ \cup {"summary"}]
  /\ UNCHANGED << pc, args, tree, files, i, template, success, raised, tally,
                  exit_code, discovered, locals, effects, counters >>

NextPure == PureBuildPrompt \/ PureExtractCode \/ PureExtractSummary

SpecPure == InitPure /\ [][NextPure]_vars

\* ------------------------------------------------------------- properties
\* The fenced blocks tagged clojure of a text, stated without a scan: a block
\* opens at an OPEN token and closes at the first token after it that begins
\* with three backticks; blocks do not overlap and the leftmost candidate wins.
HasClose(s, k) == \E j \in (k + 1)..Len(s) : s[j] \in Backticked
CloseOf(s, k) ==
  CHOOSE j \in (k + 1)..Len(s) :
    s[j] \in Backticked /\ \A m \in (k + 1)..(j - 1) : s[m] \notin Backticked
IsBlockSet(s, B) ==
  /\ \A k \in B : s[k] = OPEN /\ HasClose(s, k)
  /\ \A k, m \in B : k < m => CloseOf(s, k) < m
  /\ \A m \in 1..Len(s) :
       (s[m] = OPEN /\ HasClose(s, m) /\ m \notin B)
         => \E k \in B : k < m /\ m <= CloseOf(s, k)
BlockStarts(s) == CHOOSE B \in SUBSET (1..Len(s)) : IsBlockSet(s, B)
FirstBlock(s) == CHOOSE k \in BlockStarts(s) : \A m \in BlockStarts(s) : k <= m
LastBlock(s) == CHOOSE k \in BlockStarts(s) : \A m \in BlockStarts(s) : m <= k
Inner(s, k) == SubSeq(s, k + 1, CloseOf(s, k) - 1)
Before(s, k) == SubSeq(s, 1, k - 1)

\* a text without its leading and trailing whitespace, stated without recursion
Trim(s) ==
  LET solid == {k \in 1..Len(s) : s[k] \notin Whitespace}
  IN  IF solid = {} THEN <<>>
      ELSE SubSeq(s, CHOOSE k \in solid : \A m \in solid : k <= m,
                     CHOOSE k \in solid : \A m \in solid : m <= k)

\* the text before the first token that begins with the marker of the split
BeforeMarker(s) ==
  LET marks == {k \in 1..Len(s) : s[k] \in Marked}
  IN  IF marks = {} THEN s
      ELSE Before(s, CHOOSE k \in marks : \A m \in marks : k <= m)

InLoop == pc \in {"read", "build", "calling", "parse", "account", "sleep"}
Completed == pc = "done" /\ tally # <<>>

\* C1: an exception raised while a file is processed is caught in
\* refactor_file and makes it return failure; the loop goes on to every later
\* file, so once the loop has been entered the run can only end with the tally
\* printed and success_count + error_count equal to the number of files.
C1_ExceptionsCountedLoopCompletes ==
  /\ (pc = "account" /\ raised # "none") => ~success
  /\ (InLoop /\ pc # "sleep") => success_count + error_count = i - 1
  /\ pc = "sleep" => success_count + error_count = i
  /\ (client_built /\ pc = "done")
       => /\ exit_code = 0
          /\ tally = << success_count, error_count >>
          /\ i = Len(files)
          /\ success_count + error_count = Len(files)

\* the first file failed on an exception before any call, the second succeeded
C1_Witness ==
  /\ pc = "account" /\ i = 2 /\ success
  /\ error_count = 1 /\ calls = 1 /\ outfiles # NoFiles

\* C2: a dry run prints every discovered path and exits 0; it never creates a
\* directory, writes a file, builds the client or issues a remote call.
C2_DryRunTouchesNothing ==
  args.dry_run
    => /\ made_dirs = {} /\ outfiles = NoFiles
       /\ ~client_built /\ calls = 0 /\ inflight = 0
       /\ (pc = "done" /\ discovered /\ files # <<>>)
            => (printed = files /\ exit_code = 0)

C2_Witness ==
  /\ args.dry_run /\ args.path_kind = "top" /\ pc = "done"
  /\ Len(files) >= 2 /\ printed = files

\* C3: a missing input path or template ends the run with code 1 before
\* discovery, any call and any write; no matching file ends it with code 0 and
\* no work done; a run that reaches the tally ends with code 0 whatever the
\* number of failures.
C3_ExitCodes ==
  /\ (~PathExists(args.path_kind, tree) \/ ~args.template_exists)
       => /\ pc \in {"validate", "done"}
          /\ ~discovered /\ calls = 0 /\ outfiles = NoFiles /\ made_dirs = {}
          /\ pc = "done" => exit_code = 1
  /\ (pc = "done" /\ discovered /\ files = <<>>)
       => /\ exit_code = 0
          /\ calls = 0 /\ outfiles = NoFiles /\ made_dirs = {} /\ ~client_built
  /\ Completed => exit_code = 0
  /\ pc # "done" => exit_code = -1

\* every file failed and the run still ended with code 0
C3_Witness ==
  /\ Completed /\ exit_code = 0
  /\ Len(files) >= 2 /\ tally = << 0, Len(files) >>

\* C4: every path written under the output root is written once, for one
\* input file.
C4_OneInputPerOutputPath ==
  \A p \in DOMAIN outfiles : outfiles[p].n = 1 /\ Cardinality(outfiles[p].srcs) = 1

\* the states of refactor_file's caller right after a call that got a reply
GotReply == pc = "account" /\ raised \in {"none", "io"}
DebugWritten == DebugPath(files[i]) \in DOMAIN outfiles
BodyWritten == OutputPath(files[i]) \in DOMAIN outfiles
SummaryWritten == SummaryPath(files[i]) \in DOMAIN outfiles

\* C5 as stated: after a reply (and no failing write) the debug file is written,
\* and failure returned, exactly when the reply has no clojure block; with a
\* block the body is written and no debug file.
C5_DebugIffNoBlock ==
  (GotReply /\ raised = "none")
    => /\ DebugWritten <=> BlockStarts(response) = {}
       /\ success <=> ~DebugWritten
       /\ BlockStarts(response) # {} => BodyWritten

\* no block, or a last block that holds only whitespace
NoUsableCode(s) == BlockStarts(s) = {} \/ Trim(Inner(s, LastBlock(s))) = <<>>

\* C5 amended: the debug file (the untouched reply) is written, and failure
\* returned, exactly when the reply has no clojure block or its last block is
\* empty after trimming; otherwise the body is written and no debug file.
C5_DebugIffNoUsableCode ==
  /\ (GotReply /\ raised = "none")
       => /\ DebugWritten <=> NoUsableCode(response)
          /\ success <=> ~DebugWritten
          /\ DebugWritten => outfiles[DebugPath(files[i])].text = response
          /\ ~NoUsableCode(response) => BodyWritten
  /\ GotReply
       => /\ DebugWritten => (NoUsableCode(response) /\ ~BodyWritten)
          /\ BodyWritten => ~NoUsableCode(response)

\* a reply whose only block is blank went to the debug file
C5_Witness ==
  /\ GotReply /\ raised = "none" /\ DebugWritten
  /\ BlockStarts(response) # {} /\ ~success

\* C6: extract_code_from_response gives the trimmed inner text of the last
\* clojure block, and None when the reply has no such block.
C6_LastBlockTrimmed ==
  "code" \in pure.done
    => pure.code = IF BlockStarts(pure.reply) = {} THEN None
                   ELSE Some(Trim(Inner(pure.reply, LastBlock(pure.reply))))

\* two blocks with different texts: the last one was returned
C6_Witness ==
  /\ "code" \in pure.done
  /\ Cardinality(BlockStarts(pure.reply)) >= 2
  /\ Trim(Inner(pure.reply, FirstBlock(pure.reply))) # pure.code.text

\* C7: extract_changes_summary gives the trimmed text before the first clojure
\* block, and the empty string when the reply has no such block.
C7_SummaryBeforeFirstBlock ==
  "summary" \in pure.done
    => pure.summary = IF BlockStarts(pure.reply) = {} THEN <<>>
                      ELSE Trim(Before(pure.reply, FirstBlock(pure.reply)))

\* the states after a successful refactor_file on a reply with exactly one block
OneBlockSuccess ==
  pc = "account" /\ success /\ Cardinality(BlockStarts(response)) = 1

\* C8 as stated: the body file holds T and one newline, the summary file the
\* header and S, and the summary file exists only for a non-empty summary.
C8_WritesTAndS ==
  OneBlockSuccess
    => LET k == FirstBlock(response)
       IN  /\ BodyWritten
           /\ outfiles[OutputPath(files[i])].text = Inner(response, k) \o <<NL>>
           /\ SummaryWritten <=> summary # <<>>
           /\ SummaryWritten
                => outfiles[SummaryPath(files[i])].text =
                     SummaryText(files[i], Before(response, k))

\* C8 amended: the body file holds T trimmed and one newline; the summary file
\* holds the header, a blank line and the trimmed text that precedes the first
\* marker, and exists only when that text is not empty.
C8_WritesTrimmed ==
  OneBlockSuccess
    => LET k == FirstBlock(response)
           s == Trim(BeforeMarker(response))
       IN  /\ BodyWritten
           /\ outfiles[OutputPath(files[i])].text = Trim(Inner(response, k)) \o <<NL>>
           /\ outfiles[OutputPath(files[i])].text # <<NL>>
           /\ SummaryWritten <=> s # <<>>
           /\ SummaryWritten
                => outfiles[SummaryPath(files[i])].text =
                     <<"# Changes for ">> \o PathText(files[i]) \o <<NL, NL>> \o s
           /\ ~DebugWritten

\* narration, then a block whose text has blanks around it
C8_Witness ==
  /\ OneBlockSuccess /\ SummaryWritten
  /\ Inner(response, FirstBlock(response)) # Trim(Inner(response, FirstBlock(response)))

\* C9: build_prompt gives the same text whichever placeholder is substituted
\* first.
C9_OrderIndependent ==
  "prompt" \in pure.done
    => pure.prompt =
         Replace(Replace(pure.template, PH_CONTENT, pure.content), PH_PATH, pure.path)

\* C10: at most one remote call is in flight; the call for a file starts only
\* when every earlier file has been counted and one pause per earlier file has
\* elapsed; a completed run over N files has made N - 1 pauses.
C10_OneCallAtATimePaced ==
  /\ inflight \in {0, 1}
  /\ inflight = 1 <=> pc = "calling"
  /\ calls <= i
  /\ InLoop => pauses = i - 1
  /\ pc = "calling" => (success_count + error_count = i - 1 /\ raised = "none")
  /\ Completed => pauses = Len(files) - 1

\* the third file's call is in flight after two pauses
C10_Witness ==
  /\ pc = "calling" /\ i = 3 /\ calls = 3 /\ pauses = 2 /\ inflight = 1

=============================================================================
